---- MODULE Spec2Model ----
(***************************************************************************)
(* FlowBoard: the kanban store (src/src/store/kanbanStore.js), the mock    *)
(* remote it calls (src/src/utils/mockAPI.js) and the form handlers that   *)
(* call the store.  One action per store operation, one per settlement of  *)
(* a remote call, one per form handler.  The persist middleware copies the *)
(* state to storage after each set() and changes nothing: it is left out.  *)
(*                                                                         *)
(* Strings that are trimmed by the code are sequences of tokens, the token *)
(* " " standing for white space.  Ids are tagged triples: the literal ids  *)
(* '1','2','3' are <<"lit",k,0>>, `temp-${Date.now()}` is <<"temp",t,0>>,  *)
(* Date.now().toString() + <random suffix> is <<"srv",t,r>>.               *)
(***************************************************************************)
EXTENDS Integers, Sequences, FiniteSets, TLC

VARIABLES
    tasks,      \* state.tasks: the collection, an array of task objects
    user,       \* state.user: null or {username, loggedInAt}
    now,        \* the value Date.now() returns
    pending,    \* the remote calls awaiting their timer, in the order issued
    toasts,     \* the notifications emitted so far (toast.success / toast.error)
    issued,     \* number of remote calls issued so far
    calls,      \* history: number of calls counted against limit
    limit,      \* history: the number of calls this run may make
    last,       \* history: the call or settlement that ran last
    applied,    \* history: the tasks that the confirmed mutations make of the seeded ones
    disciplined \* history: no settled call overlapped a call of its id or a logout

vars == <<tasks, user, now, pending, toasts, issued, calls, limit, last, applied,
         disciplined>>

----------------------------------------------------------------------------
(* Bounds of the model *)

MaxCalls == 2       \* calls of login and of the four mutations in one run
MaxTicks == 1       \* one-millisecond ticks of the clock in one run

(* Program constants *)

API_LATENCY == 1500
T0 == 2000          \* Date.now() when the store module is loaded
SEED_AGE_2 == 1000
SEED_AGE_3 == 2000

TODO == "todo"
IN_PROGRESS == "inProgress"
DONE == "done"
COLUMNS == {TODO, IN_PROGRESS, DONE}

null == [username |-> <<"null">>, loggedInAt |-> 0]

----------------------------------------------------------------------------
(* Ids *)

LitId(k) == <<"lit", k, 0>>
TempId(t) == <<"temp", t, 0>>
\* Date.now().toString() + Math.random().toString(36).substr(2, 9): the time stamp
\* is the clock when the remote replies; r is the random suffix.
ServerId(t, r) == <<"srv", t, r>>
MissingId == LitId(0)

----------------------------------------------------------------------------
(* Strings *)

RECURSIVE trimStart(_)
trimStart(s) == IF s # <<>> /\ Head(s) = " " THEN trimStart(Tail(s)) ELSE s

RECURSIVE trimEnd(_)
trimEnd(s) == IF s # <<>> /\ s[Len(s)] = " " THEN trimEnd(SubSeq(s, 1, Len(s) - 1)) ELSE s

trim(s) == trimEnd(trimStart(s))

TITLE_1 == <<"Design landing page mockup">>
TITLE_2 == <<"Implement authentication flow">>
TITLE_3 == <<"Setup project repository">>

\* what a caller of the store may pass as a title
TitleInputs == {<<>>, <<" ">>, <<"a">>}
\* what the user may have typed into a form field
TypedInputs == {<<>>, <<" ">>, <<"a", " ">>}
\* what a caller of the store may pass as a user name
NameInputs == {<<>>, <<"u">>}

----------------------------------------------------------------------------
(* The seeded collection *)

initialTasks ==
    << [id |-> LitId(1), title |-> TITLE_1, column |-> TODO, createdAt |-> T0],
       [id |-> LitId(2), title |-> TITLE_2, column |-> IN_PROGRESS, createdAt |-> T0 - SEED_AGE_2],
       [id |-> LitId(3), title |-> TITLE_3, column |-> DONE, createdAt |-> T0 - SEED_AGE_3] >>

NoTask == [id |-> MissingId, title |-> <<>>, column |-> TODO, createdAt |-> 0]

----------------------------------------------------------------------------
(* Array helpers *)

Has(ts, id) == \E i \in 1..Len(ts) : ts[i].id = id

\* Array.prototype.find: the first element with the id
find(ts, id) ==
    ts[CHOOSE i \in 1..Len(ts) : ts[i].id = id /\ \A j \in 1..(i - 1) : ts[j].id # id]

\* tasks.filter((task) => task.id !== id)
filterOut(ts, id) == LET Keep(t) == t.id # id IN SelectSeq(ts, Keep)

RECURSIVE insertByCreatedAt(_, _)
insertByCreatedAt(s, x) ==
    IF s = <<>> THEN <<x>>
    ELSE IF Head(s).createdAt > x.createdAt THEN <<x>> \o s
    ELSE <<Head(s)>> \o insertByCreatedAt(Tail(s), x)

\* Array.prototype.sort((a, b) => a.createdAt - b.createdAt): ascending and stable
RECURSIVE sortByCreatedAt(_)
sortByCreatedAt(s) ==
    IF s = <<>> THEN <<>>
    ELSE insertByCreatedAt(sortByCreatedAt(SubSeq(s, 1, Len(s) - 1)), s[Len(s)])

\* the ids a caller can name: those on the board, those of calls in flight, and one
\* that was never on the board
KnownIds ==
    {tasks[i].id : i \in 1..Len(tasks)} \cup {pending[i].id : i \in 1..Len(pending)}
        \cup {MissingId}

----------------------------------------------------------------------------
(* The clock *)

\* the clock advances by single milliseconds (Tick) and, when a timer fires later
\* than the present, to the time the timer is due (Settle)
Tick ==
    /\ (now - T0) % API_LATENCY < MaxTicks
    /\ now' = now + 1
    /\ UNCHANGED <<tasks, user, pending, toasts, issued, calls, limit, last, applied,
                 disciplined>>

----------------------------------------------------------------------------
(* History records *)

\* a call of operation op with its arguments
\* (found: whether the id it was given resolved to a task)
Call(op, found) ==
    [kind |-> "call", op |-> op, id |-> MissingId, ok |-> found,
     n |-> 0, sid |-> MissingId, issuePre |-> <<>>, alone |-> FALSE, quiet |-> FALSE,
     kept |-> FALSE, thrown |-> "none"]

\* the settlement of the remote call p (thrown: the name of the error the store's
\* call ends with for its caller, set by Settle)
Settled(p, ok, sid) ==
    [kind |-> "settle", op |-> p.op, id |-> p.id, ok |-> ok,
     n |-> p.n, sid |-> sid, issuePre |-> p.pre, alone |-> p.alone, quiet |-> p.quiet,
     kept |-> p.kept, thrown |-> "none"]

\* a remote call issued at time `at` for operation op on id (updates: the title that
\* updateTaskTitle sends, set by updateTaskTitle).  pre, alone, quiet and
\* kept are history: the collection at the call, whether nothing else has run since
\* the call, whether no other mutation of the same id has been in flight since,
\* whether no logout has replaced the collection since
NewOp(op, id, task, from, to, title, at) ==
    [n |-> issued + 1, op |-> op, id |-> id, task |-> task, from |-> from,
     to |-> to, title |-> title, updates |-> <<>>, due |-> at + API_LATENCY,
     pre |-> tasks,
     alone |-> pending = <<>>,
     quiet |-> \A i \in 1..Len(pending) : pending[i].id # id,
     kept |-> TRUE]

\* the calls in flight after another operation, a mutation of id, has run
Disturb(ps, id) ==
    [i \in 1..Len(ps) |-> [ps[i] EXCEPT !.alone = FALSE, !.quiet = @ /\ ps[i].id # id]]

\* the calls in flight after logout has replaced the collection
Replaced(ps) ==
    [i \in 1..Len(ps) |-> [ps[i] EXCEPT !.alone = FALSE, !.kept = FALSE]]

\* the history of confirmed mutations starts again from the seeded tasks when the
\* collection is replaced by them; it is kept only while the discipline has held (d)
Reset(d) == IF d THEN {initialTasks[i] : i \in 1..Len(initialTasks)} ELSE {}

\* a notification: toast.success(text) or toast.error(text), raised by operation op
Toast(kind, op, text) == [kind |-> kind, op |-> op, text |-> text]

----------------------------------------------------------------------------
(* Session *)

\* login, had it loaded the seeded collection as logout does
loginLoadsInitialTasks(username) ==
    /\ calls < limit
    /\ calls' = calls + 1
    /\ user' = [username |-> username, loggedInAt |-> now]
    /\ tasks' = initialTasks
    /\ pending' = Disturb(pending, MissingId)
    /\ last' = Call("login", TRUE)
    /\ UNCHANGED <<now, toasts, issued, limit, applied, disciplined>>

login(username) ==
    /\ calls < limit
    /\ calls' = calls + 1
    /\ user' = [username |-> username, loggedInAt |-> now]
    /\ pending' = Disturb(pending, MissingId)
    /\ last' = Call("login", TRUE)
    /\ UNCHANGED <<tasks, now, toasts, issued, limit, applied, disciplined>>

\* logout, had it cleared the session only
logoutKeepsTasks ==
    /\ user' = null
    /\ pending' = Replaced(pending)
    /\ last' = Call("logout", TRUE)
    /\ UNCHANGED <<tasks, now, toasts, issued, calls, limit, applied, disciplined>>

\* logout, had it dropped the remote calls in flight
logoutCancelsCalls ==
    /\ user' = null
    /\ tasks' = initialTasks
    /\ pending' = <<>>
    /\ last' = Call("logout", TRUE)
    /\ applied' = Reset(disciplined)
    /\ UNCHANGED <<now, toasts, issued, calls, limit, disciplined>>

logout ==
    /\ user' = null
    /\ tasks' = initialTasks
    /\ pending' = Replaced(pending)
    /\ last' = Call("logout", TRUE)
    /\ applied' = Reset(disciplined)
    /\ UNCHANGED <<now, toasts, issued, calls, limit, disciplined>>

----------------------------------------------------------------------------
(* The store's mutations: the synchronous part, up to the await *)

\* the clock may tick between the two Date.now() reads: d is by how much
addTaskAt(title, d) ==
    LET tempId == TempId(now)
        optimisticTask == [id |-> tempId, title |-> title, column |-> TODO,
                           createdAt |-> now + d]
    IN  /\ calls < limit
        /\ now' = now + d
        /\ tasks' = Append(tasks, optimisticTask)
        /\ pending' = Append(Disturb(pending, tempId),
                             NewOp("add", tempId, optimisticTask, TODO, TODO, title, now + d))
        /\ issued' = issued + 1
        /\ calls' = calls + 1
        /\ last' = Call("add", TRUE)
        /\ UNCHANGED <<user, toasts, limit, applied, disciplined>>

addTask(title) ==
    \/ addTaskAt(title, 0)
    \/ (now - T0) % API_LATENCY < MaxTicks /\ addTaskAt(title, 1)

\* moveTask, had it waited for the remote outcome before it applied the move
moveTaskAppliesLate(taskId, targetColumn) ==
    /\ last' = Call("move", Has(tasks, taskId))
    /\ IF ~Has(tasks, taskId)
       THEN /\ calls < limit
            /\ calls' = calls + 1
            /\ UNCHANGED <<tasks, user, now, pending, toasts, issued, limit, applied, disciplined>>
       ELSE LET taskToMove == find(tasks, taskId)
                originalColumn == taskToMove.column
            IN  /\ calls < limit
                /\ tasks' = tasks
                /\ pending' = Append(Disturb(pending, taskId),
                                     NewOp("move", taskId, NoTask, originalColumn,
                                           targetColumn, <<>>, now))
                /\ issued' = issued + 1
                /\ calls' = calls + 1
                /\ UNCHANGED <<user, now, toasts, limit, applied, disciplined>>

\* moveTask, had it taken as snapshot the stage the task had before the moves still
\* in flight
moveTaskSnapshotsSettledStage(taskId, targetColumn) ==
    /\ last' = Call("move", Has(tasks, taskId))
    /\ IF ~Has(tasks, taskId)
       THEN /\ calls < limit
            /\ calls' = calls + 1
            /\ UNCHANGED <<tasks, user, now, pending, toasts, issued, limit, applied, disciplined>>
       ELSE LET taskToMove == find(tasks, taskId)
                inFlight == {i \in 1..Len(pending) :
                                pending[i].op = "move" /\ pending[i].id = taskId}
                originalColumn ==
                    IF inFlight = {}
                    THEN taskToMove.column
                    ELSE pending[CHOOSE i \in inFlight : \A j \in inFlight : i <= j].from
            IN  /\ calls < limit
                /\ tasks' = [i \in 1..Len(tasks) |->
                               IF tasks[i].id = taskId
                               THEN [tasks[i] EXCEPT !.column = targetColumn]
                               ELSE tasks[i]]
                /\ pending' = Append(Disturb(pending, taskId),
                                     NewOp("move", taskId, NoTask, originalColumn,
                                           targetColumn, <<>>, now))
                /\ issued' = issued + 1
                /\ calls' = calls + 1
                /\ UNCHANGED <<user, now, toasts, limit, applied, disciplined>>

moveTask(taskId, targetColumn) ==
    /\ last' = Call("move", Has(tasks, taskId))
    /\ IF ~Has(tasks, taskId)
       THEN /\ calls < limit
            /\ calls' = calls + 1
            /\ UNCHANGED <<tasks, user, now, pending, toasts, issued, limit, applied, disciplined>>
       ELSE LET taskToMove == find(tasks, taskId)
                originalColumn == taskToMove.column
            IN  /\ calls < limit
                /\ tasks' = [i \in 1..Len(tasks) |->
                               IF tasks[i].id = taskId
                               THEN [tasks[i] EXCEPT !.column = targetColumn]
                               ELSE tasks[i]]
                /\ pending' = Append(Disturb(pending, taskId),
                                     NewOp("move", taskId, NoTask, originalColumn,
                                           targetColumn, <<>>, now))
                /\ issued' = issued + 1
                /\ calls' = calls + 1
                /\ UNCHANGED <<user, now, toasts, limit, applied, disciplined>>

\* deleteTask, had it not returned early on an id that is not in the collection
deleteTaskUnguarded(taskId) ==
    LET taskToDelete == IF Has(tasks, taskId) THEN find(tasks, taskId) ELSE NoTask
    IN  /\ last' = Call("delete", Has(tasks, taskId))
        /\ calls < limit
        /\ tasks' = filterOut(tasks, taskId)
        /\ pending' = Append(Disturb(pending, taskId),
                             NewOp("delete", taskId, taskToDelete, TODO, TODO, <<>>, now))
        /\ issued' = issued + 1
        /\ calls' = calls + 1
        /\ UNCHANGED <<user, now, toasts, limit, applied, disciplined>>

deleteTask(taskId) ==
    /\ last' = Call("delete", Has(tasks, taskId))
    /\ IF ~Has(tasks, taskId)
       THEN /\ calls < limit
            /\ calls' = calls + 1
            /\ UNCHANGED <<tasks, user, now, pending, toasts, issued, limit, applied, disciplined>>
       ELSE LET taskToDelete == find(tasks, taskId)
            IN  /\ calls < limit
                /\ tasks' = filterOut(tasks, taskId)
                /\ pending' = Append(Disturb(pending, taskId),
                                     NewOp("delete", taskId, taskToDelete, TODO, TODO, <<>>, now))
                /\ issued' = issued + 1
                /\ calls' = calls + 1
                /\ UNCHANGED <<user, now, toasts, limit, applied, disciplined>>

updateTaskTitle(taskId, newTitle) ==
    /\ last' = Call("update", Has(tasks, taskId))
    /\ IF ~Has(tasks, taskId)
       THEN /\ calls < limit
            /\ calls' = calls + 1
            /\ UNCHANGED <<tasks, user, now, pending, toasts, issued, limit, applied, disciplined>>
       ELSE LET taskToUpdate == find(tasks, taskId)
                originalTitle == taskToUpdate.title
            IN  /\ calls < limit
                /\ tasks' = [i \in 1..Len(tasks) |->
                               IF tasks[i].id = taskId
                               THEN [tasks[i] EXCEPT !.title = newTitle]
                               ELSE tasks[i]]
                /\ pending' = Append(Disturb(pending, taskId),
                                     [NewOp("update", taskId, NoTask, TODO, TODO,
                                            originalTitle, now)
                                        EXCEPT !.updates = newTitle])
                /\ issued' = issued + 1
                /\ calls' = calls + 1
                /\ UNCHANGED <<user, now, toasts, limit, applied, disciplined>>

----------------------------------------------------------------------------
(* What a remote call comes back with *)

\* new MockAPIError(message, operation)
MockAPIError(message, operation) ==
    [name |-> "MockAPIError", message |-> message, operation |-> operation]

\* the remote call returned: nothing was thrown
NoError == [name |-> "none", message |-> "", operation |-> ""]

\* what mockAPI throws when shouldFail() says so
simulatedFailure(op) ==
    CASE op = "add" -> MockAPIError("Failed to add task. Please try again.", "add")
      [] op = "move" -> MockAPIError("Failed to move task. Please try again.", "move")
      [] op = "delete" -> MockAPIError("Failed to delete task. Please try again.", "delete")
      [] op = "update" -> MockAPIError("Failed to update task. Please try again.", "update")

\* an error that is not mockAPI's own.  mockAPI as written throws nothing else; the
\* catch clauses of the store take whatever the awaited call throws, and this is the
\* value that stands for it
UnexpectedError == [name |-> "Error", message |-> "", operation |-> ""]

\* what the awaited remote call of operation op can come back with
RemoteOutcomes(op) == {NoError, simulatedFailure(op), UnexpectedError}

AllOutcomes == UNION {RemoteOutcomes(op) : op \in {"add", "move", "delete", "update"}}

\* error.message || fallback
messageOr(error, fallback) == IF error.message # "" THEN error.message ELSE fallback

\* the values Math.random().toString(36).substr(2, 9) is drawn from
RandomSuffixes == {1, 2}

----------------------------------------------------------------------------
(* The store's mutations: the part after the await.  error is what the remote   *)
(* call threw (NoError: it returned); at is the clock when the remote replies; r *)
(* is the random suffix mockAPI.addTask draws.                                   *)

\* mockAPI.addTask's reply: the task it was given, with the id the server assigns
serverTaskOf(p, at, r) == [p.task EXCEPT !.id = ServerId(at, r)]

\* what the functions that the continuations pass to set() make of a collection ts:
\* the replacement of the provisional task, and the four rollbacks
\* replaceTemp with a stage name that COLUMNS does not have (COLUMNS.BACKLOG is
\* undefined in the source)
replaceTempUnknownStage(ts, p, at, r) ==
    [i \in 1..Len(ts) |->
        IF ts[i].id = p.id
        THEN [serverTaskOf(p, at, r) EXCEPT !.column = "undefined"]
        ELSE ts[i]]

replaceTemp(ts, p, at, r) ==
    [i \in 1..Len(ts) |->
        IF ts[i].id = p.id
        THEN [serverTaskOf(p, at, r) EXCEPT !.column = TODO]
        ELSE ts[i]]

rollbackAdd(ts, p) == filterOut(ts, p.id)

\* the rollback of moveTask, had it put the task it found at the call back when the
\* collection no longer has it
rollbackMoveReinserts(ts, p) ==
    IF Has(ts, p.id)
    THEN [i \in 1..Len(ts) |->
             IF ts[i].id = p.id THEN [ts[i] EXCEPT !.column = p.from] ELSE ts[i]]
    ELSE Append(ts, [p.task EXCEPT !.column = p.from])

rollbackMove(ts, p) ==
    [i \in 1..Len(ts) |->
        IF ts[i].id = p.id THEN [ts[i] EXCEPT !.column = p.from] ELSE ts[i]]

\* the rollback of deleteTask, had it put the task back at its place among the tasks
\* as they stand, without sorting them
rollbackDeletePlacesOnly(ts, p) == insertByCreatedAt(ts, p.task)

rollbackDelete(ts, p) == sortByCreatedAt(Append(ts, p.task))

rollbackUpdate(ts, p) ==
    [i \in 1..Len(ts) |->
        IF ts[i].id = p.id THEN [ts[i] EXCEPT !.title = p.title] ELSE ts[i]]

\* the continuation of addTask, had its rollback left the provisional task in place
settleAddKeepsProvisional(p, error, at, r) ==
    IF error = NoError
    THEN /\ tasks' = replaceTemp(tasks, p, at, r)
         /\ toasts' = Append(toasts, Toast("success", "add", "Task added successfully!"))
    ELSE /\ tasks' = tasks
         /\ toasts' = Append(toasts, Toast("error", "add",
                                   messageOr(error, "Failed to add task")))

settleAdd(p, error, at, r) ==
    IF error = NoError
    THEN /\ tasks' = replaceTemp(tasks, p, at, r)
         /\ toasts' = Append(toasts, Toast("success", "add", "Task added successfully!"))
    ELSE /\ tasks' = rollbackAdd(tasks, p)
         /\ toasts' = Append(toasts, Toast("error", "add",
                                   messageOr(error, "Failed to add task")))

\* the rollback of moveTask, had it emitted no notification
settleMoveSilentRollback(p, error) ==
    IF error = NoError
    THEN /\ tasks' = tasks
         /\ toasts' = Append(toasts, Toast("success", "move", "Task moved successfully!"))
    ELSE /\ tasks' = [i \in 1..Len(tasks) |->
                         IF tasks[i].id = p.id
                         THEN [tasks[i] EXCEPT !.column = p.from]
                         ELSE tasks[i]]
         /\ toasts' = toasts

\* the continuation of moveTask, had its catch clause rolled back for mockAPI's own
\* error only
settleMoveRollsBackSimulatedOnly(p, error) ==
    IF error = NoError
    THEN /\ tasks' = tasks
         /\ toasts' = Append(toasts, Toast("success", "move", "Task moved successfully!"))
    ELSE /\ tasks' = IF error.name = "MockAPIError" THEN rollbackMove(tasks, p) ELSE tasks
         /\ toasts' = Append(toasts, Toast("error", "move",
                                   messageOr(error, "Failed to move task")))

settleMove(p, error) ==
    IF error = NoError
    THEN /\ tasks' = tasks
         /\ toasts' = Append(toasts, Toast("success", "move", "Task moved successfully!"))
    ELSE /\ tasks' = rollbackMove(tasks, p)
         /\ toasts' = Append(toasts, Toast("error", "move",
                                   messageOr(error, "Failed to move task")))

\* the rollback of deleteTask, had it sorted the collection before it put the task
\* back, not after
settleDeleteSortsFirst(p, error) ==
    IF error = NoError
    THEN /\ tasks' = tasks
         /\ toasts' = Append(toasts, Toast("success", "delete", "Task deleted successfully!"))
    ELSE /\ tasks' = Append(sortByCreatedAt(tasks), p.task)
         /\ toasts' = Append(toasts, Toast("error", "delete",
                                   messageOr(error, "Failed to delete task")))

settleDelete(p, error) ==
    IF error = NoError
    THEN /\ tasks' = tasks
         /\ toasts' = Append(toasts, Toast("success", "delete", "Task deleted successfully!"))
    ELSE /\ tasks' = rollbackDelete(tasks, p)
         /\ toasts' = Append(toasts, Toast("error", "delete",
                                   messageOr(error, "Failed to delete task")))

\* the continuation of updateTaskTitle, had it written the new title again on success
settleUpdateWritesAgain(p, error) ==
    IF error = NoError
    THEN /\ tasks' = [i \in 1..Len(tasks) |->
                         IF tasks[i].id = p.id
                         THEN [tasks[i] EXCEPT !.title = p.updates]
                         ELSE tasks[i]]
         /\ toasts' = Append(toasts, Toast("success", "update", "Task updated successfully!"))
    ELSE /\ tasks' = rollbackUpdate(tasks, p)
         /\ toasts' = Append(toasts, Toast("error", "update",
                                   messageOr(error, "Failed to update task")))

settleUpdate(p, error) ==
    IF error = NoError
    THEN /\ tasks' = tasks
         /\ toasts' = Append(toasts, Toast("success", "update", "Task updated successfully!"))
    ELSE /\ tasks' = rollbackUpdate(tasks, p)
         /\ toasts' = Append(toasts, Toast("error", "update",
                                   messageOr(error, "Failed to update task")))

\* the name of the error a store call ends with after its catch clause has run, had
\* the clause thrown the error on
rethrownAlways(error) == error.name

\* the name of the error a store call ends with after its catch clause has run: the
\* clause throws nothing, the call returns
rethrown(error) == NoError.name

\* the timer of the oldest call in flight fires (timers of equal delay fire in the
\* order they were set), the remote call comes back and the store's continuation runs
\* what a mutation whose remote call has returned makes of a set ref of tasks, and
\* what one whose remote call has thrown makes of it (nothing): the task created with
\* the id of the server in the first column, the column moved to, the task removed,
\* the title renamed to
Confirmed(ref, p, error, at, r) ==
    IF error # NoError THEN ref
    ELSE CASE p.op = "add" -> ref \cup {[serverTaskOf(p, at, r) EXCEPT !.column = TODO]}
           [] p.op = "move" ->
                {IF t.id = p.id THEN [t EXCEPT !.column = p.to] ELSE t : t \in ref}
           [] p.op = "delete" -> {t \in ref : t.id # p.id}
           [] p.op = "update" ->
                {IF t.id = p.id THEN [t EXCEPT !.title = p.updates] ELSE t : t \in ref}

Settle(error, r) ==
    /\ pending # <<>>
    /\ error \in RemoteOutcomes(Head(pending).op)
    /\ LET p == Head(pending)
           at == IF now < p.due THEN p.due ELSE now
       IN  /\ now' = at
           /\ CASE p.op = "add" -> settleAdd(p, error, at, r)
                [] p.op = "move" -> settleMove(p, error)
                [] p.op = "delete" -> settleDelete(p, error)
                [] p.op = "update" -> settleUpdate(p, error)
           /\ pending' = Disturb(Tail(pending), MissingId)
           /\ last' = [Settled(p, error = NoError,
                               IF p.op = "add" /\ error = NoError
                               THEN ServerId(at, r) ELSE MissingId)
                          EXCEPT !.thrown = rethrown(error)]
           /\ disciplined' = (disciplined /\ p.quiet /\ p.kept)
           /\ applied' = IF disciplined'
                          THEN Confirmed(applied, p, error, at, r)
                          ELSE {}
           /\ UNCHANGED <<user, issued, calls, limit>>

----------------------------------------------------------------------------
(* The read of one column *)

\* getTasksByColumn, had it returned the tasks of the column in order of createdAt
getTasksByColumnSorted(column) ==
    LET InColumn(task) == task.column = column
    IN  sortByCreatedAt(SelectSeq(tasks, InColumn))

getTasksByColumn(column) ==
    LET InColumn(task) == task.column = column
    IN  SelectSeq(tasks, InColumn)

----------------------------------------------------------------------------

(* The form handlers that call the store *)

\* a handler that returned without calling the store
Rejected(handler) ==
    /\ calls < limit
    /\ calls' = calls + 1
    /\ last' = Call(handler, FALSE)
    /\ UNCHANGED <<tasks, user, now, pending, toasts, issued, limit, applied, disciplined>>

\* AddTaskForm.handleSubmit, taskTitle being the text of the input field
handleSubmit(taskTitle) ==
    IF trim(taskTitle) = <<>>
    THEN Rejected("handleSubmit")
    ELSE addTask(trim(taskTitle))

\* TaskCard.handleSave on the card of task, editTitle being the text of the input field
handleSave(task, editTitle) ==
    IF trim(editTitle) # <<>> /\ editTitle # task.title
    THEN updateTaskTitle(task.id, trim(editTitle))
    ELSE Rejected("handleSave")

\* TaskCard.handleDelete on the card of task
handleDelete(task) == deleteTask(task.id)

\* Column.handleDrop on column columnId; taskId and sourceColumn are what
\* TaskCard.handleDragStart put into the drag: the id and the column of the card
handleDrop(taskId, sourceColumn, columnId) ==
    IF sourceColumn # columnId
    THEN moveTask(taskId, columnId)
    ELSE Rejected("handleDrop")

\* the columns a drag of the card of task may carry: the column of the card, or a
\* column the card showed when the drag began, before a move in flight was called
\* or rolled back
SourceColumns(task) ==
    {task.column}
        \cup {pending[k].from : k \in {j \in 1..Len(pending) :
                                          pending[j].op = "move" /\ pending[j].id = task.id}}
        \cup {pending[k].to : k \in {j \in 1..Len(pending) :
                                        pending[j].op = "move" /\ pending[j].id = task.id}}

\* LandingPage.handleLogin, username being the text of the input field
handleLogin(username) ==
    IF trim(username) = <<>>
    THEN Rejected("handleLogin")
    ELSE login(trim(username))

\* what the edit field of the card of task may hold
EditInputs(task) == TypedInputs \cup {task.title, task.title \o <<" ">>}

----------------------------------------------------------------------------

InitialHistory ==
    [kind |-> "init", op |-> "none", id |-> MissingId, ok |-> TRUE, n |-> 0,
     sid |-> MissingId, issuePre |-> <<>>, alone |-> FALSE, quiet |-> FALSE,
     kept |-> FALSE, thrown |-> "none"]

Init ==
    /\ tasks = initialTasks
    /\ user = null
    /\ now = T0
    /\ pending = <<>>
    /\ toasts = <<>>
    /\ issued = 0
    /\ calls = 0
    /\ limit = MaxCalls
    /\ applied = Reset(TRUE)
    /\ disciplined = TRUE
    /\ last = InitialHistory

Next ==
    \/ Tick
    \/ \E u \in NameInputs : login(u)
    \/ logout
    \/ \E t \in TitleInputs : addTask(t)
    \/ \E id \in KnownIds, c \in COLUMNS : moveTask(id, c)
    \/ \E id \in KnownIds : deleteTask(id)
    \/ \E id \in KnownIds, t \in TitleInputs : updateTaskTitle(id, t)
    \/ \E t \in TypedInputs : handleSubmit(t)
    \/ \E i \in 1..Len(tasks) : \E t \in EditInputs(tasks[i]) : handleSave(tasks[i], t)
    \/ \E i \in 1..Len(tasks) : handleDelete(tasks[i])
    \/ \E i \in 1..Len(tasks) : \E s \in SourceColumns(tasks[i]), c \in COLUMNS :
          handleDrop(tasks[i].id, s, c)
    \/ \E t \in TypedInputs \cup {<<"u", " ">>} : handleLogin(t)
    \/ \E e \in AllOutcomes, r \in RandomSuffixes : Settle(e, r)

Spec == Init /\ [][Next]_vars

(* The same program with its timers: a timer that is set fires, so a remote call *)
(* in flight settles                                                             *)

Settlement == \E e \in AllOutcomes, r \in RandomSuffixes : Settle(e, r)

FairSpec == Spec /\ WF_vars(Settlement)

(* The same program, called on the first seeded task only, one call deeper *)

InitOneTask ==
    /\ tasks = initialTasks
    /\ user = null
    /\ now = T0
    /\ pending = <<>>
    /\ toasts = <<>>
    /\ issued = 0
    /\ calls = 0
    /\ limit = MaxCalls + 1
    /\ applied = Reset(TRUE)
    /\ disciplined = TRUE
    /\ last = InitialHistory

NextOneTask ==
    \/ logout
    \/ \E c \in COLUMNS : moveTask(LitId(1), c)
    \/ deleteTask(LitId(1))
    \/ updateTaskTitle(LitId(1), <<"a">>)
    \/ \E e \in AllOutcomes, r \in RandomSuffixes : Settle(e, r)

SpecOneTask == InitOneTask /\ [][NextOneTask]_vars

(* The same program, creating tasks and removing the created ones, two calls deeper *)

InitCreateRemove ==
    /\ tasks = initialTasks
    /\ user = null
    /\ now = T0
    /\ pending = <<>>
    /\ toasts = <<>>
    /\ issued = 0
    /\ calls = 0
    /\ limit = MaxCalls + 2
    /\ applied = Reset(TRUE)
    /\ disciplined = TRUE
    /\ last = InitialHistory

NextCreateRemove ==
    \/ addTask(<<"a">>)
    \/ \E id \in KnownIds \ {initialTasks[i].id : i \in 1..Len(initialTasks)} :
          deleteTask(id)
    \/ \E e \in AllOutcomes, r \in RandomSuffixes : Settle(e, r)

SpecCreateRemove == InitCreateRemove /\ [][NextCreateRemove]_vars

----------------------------------------------------------------------------
(* Vocabulary of the claims *)

Ids(ts) == {ts[i].id : i \in 1..Len(ts)}

\* how many tasks of ts have one of the ids
CountOf(ts, ids) == Cardinality({i \in 1..Len(ts) : ts[i].id \in ids})

\* the stages of the tasks of ts that have the id
StagesOf(ts, id) == {ts[i].column : i \in {j \in 1..Len(ts) : ts[j].id = id}}

\* ascending createdAt, all values distinct
StrictlyAscending(ts) == \A i \in 1..(Len(ts) - 1) : ts[i].createdAt < ts[i + 1].createdAt

\* the last step settled a remote call of operation op, with the outcome ok
JustSettled(op, ok) == last.kind = "settle" /\ last.op = op /\ last.ok = ok

\* a step that leaves the store as it was and emits nothing
NothingHappens == UNCHANGED <<tasks, user, now, pending, toasts, issued>>

\* every title a caller may pass to updateTaskTitle
RenameInputs == TitleInputs \cup {tasks[i].title : i \in 1..Len(tasks)}

----------------------------------------------------------------------------
(* The claims *)

\* C1: in every reachable state no two tasks of the collection have the same id.
C1_UniqueIds ==
    \A i, j \in 1..Len(tasks) : tasks[i].id = tasks[j].id => i = j

\* C2: while a create is in flight the collection never holds two tasks for it, and
\* right after its successful settlement exactly one task stands for it, under the
\* id the remote returned and not under the provisional id.
C2_OneTaskPerCreate ==
    /\ \A k \in 1..Len(pending) :
          pending[k].op = "add" => CountOf(tasks, {pending[k].id}) <= 1
    /\ JustSettled("add", TRUE) =>
          /\ CountOf(tasks, {last.id, last.sid}) = 1
          /\ CountOf(tasks, {last.id}) = 0

\* C3: a move whose remote call failed, no other mutation of the same id having been
\* in flight meanwhile, leaves every task of that id in the stage it had right
\* before the move was called.
C3_FailedMoveRestoresStage ==
    (JustSettled("move", FALSE) /\ last.quiet /\ Has(tasks, last.id))
        => StagesOf(tasks, last.id) = StagesOf(last.issuePre, last.id)

\* C4: a remove whose remote call failed, nothing else having run in between, gives
\* back exactly the collection of before the remove, when that collection was in
\* ascending order of createdAt with all createdAt distinct.
C4_FailedRemoveRestoresSortedCollection ==
    (JustSettled("delete", FALSE) /\ last.alone /\ StrictlyAscending(last.issuePre))
        => tasks = last.issuePre

C4_Witness ==
    /\ JustSettled("delete", FALSE) /\ last.alone /\ StrictlyAscending(last.issuePre)
    /\ Len(last.issuePre) >= 3
    /\ last.issuePre[Len(last.issuePre)].id # last.id

\* C5: from the seeded collection, a remove of a seeded task whose remote call
\* failed, nothing else having run in between, gives back the seeded collection in
\* its order.
C5_FailedRemoveRestoresSeededCollection ==
    (JustSettled("delete", FALSE) /\ last.alone /\ last.issuePre = initialTasks)
        => tasks = initialTasks

\* C6: addTask with a title that is empty once trimmed changes nothing, issues no
\* remote call and emits no notification.
C6_EmptyTitleIsRejected ==
    [][\A t \in TitleInputs : (trim(t) = <<>> /\ addTask(t)) => NothingHappens]_vars

\* C7: moveTask, deleteTask and updateTaskTitle called with an id that no task of the
\* collection has change nothing, issue no remote call and emit no notification.
C7_MissingIdIsNoOp ==
    [][\A id \in KnownIds :
          ~Has(tasks, id) =>
             /\ \A c \in COLUMNS : moveTask(id, c) => NothingHappens
             /\ deleteTask(id) => NothingHappens
             /\ \A t \in RenameInputs : updateTaskTitle(id, t) => NothingHappens]_vars

C7_Witness ==
    /\ last.kind = "call" /\ last.op \in {"move", "delete", "update"} /\ ~last.ok
    /\ pending # <<>>

\* C8: updateTaskTitle with a title that, once trimmed, is the task's current title
\* changes nothing, issues no remote call and emits no notification.
C8_SameTitleIsNoOp ==
    [][\A id \in KnownIds : \A t \in RenameInputs :
          (Has(tasks, id) /\ trim(t) = find(tasks, id).title /\ updateTaskTitle(id, t))
              => NothingHappens]_vars

\* C9: right after logout the session is absent and the collection is the seeded one.
C9_LogoutResets ==
    (last.kind = "call" /\ last.op = "logout") => (user = null /\ tasks = initialTasks)

C9_Witness ==
    /\ last.kind = "call" /\ last.op = "logout"
    /\ toasts # <<>> /\ pending # <<>>

TitlesOf(ts, id) == {ts[i].title : i \in {j \in 1..Len(ts) : ts[j].id = id}}

\* the step put one more remote call in flight, the newest, whose snapshot is the
\* collection of the state the call started in, and no outcome has been notified
IssuedOnSnapshot ==
    /\ issued' = issued + 1
    /\ Len(pending') = Len(pending) + 1
    /\ pending'[Len(pending')].n = issued'
    /\ pending'[Len(pending')].pre = tasks
    /\ toasts' = toasts

\* C11: the step of a mutation call that is not a no-op leaves its effect in the
\* collection with the remote call still in flight: the created task is there under
\* the provisional id in the first stage, the moved task is in the target stage, the
\* removed task is gone, the renamed task has the new title; the values the call
\* remembers for a rollback are those of the state the call started in.
C11_OptimisticApply ==
    [][/\ \A t \in TitleInputs :
            addTask(t) =>
               /\ Len(tasks') = Len(tasks) + 1
               /\ SubSeq(tasks', 1, Len(tasks)) = tasks
               /\ tasks'[Len(tasks')].id = TempId(now)
               /\ tasks'[Len(tasks')].column = TODO
               /\ tasks'[Len(tasks')].title = t
               /\ IssuedOnSnapshot
       /\ \A id \in KnownIds :
            Has(tasks, id) =>
               /\ \A c \in COLUMNS :
                     moveTask(id, c) =>
                        /\ StagesOf(tasks', id) = {c}
                        /\ pending'[Len(pending')].from = find(tasks, id).column
                        /\ IssuedOnSnapshot
               /\ deleteTask(id) =>
                     /\ ~Has(tasks', id)
                     /\ pending'[Len(pending')].task = find(tasks, id)
                     /\ IssuedOnSnapshot
               /\ \A t \in RenameInputs :
                     updateTaskTitle(id, t) =>
                        /\ TitlesOf(tasks', id) = {t}
                        /\ pending'[Len(pending')].title = find(tasks, id).title
                        /\ IssuedOnSnapshot]_vars

C11_Witness ==
    /\ last.kind = "call" /\ last.op \in {"add", "move", "delete", "update"} /\ last.ok
    /\ Len(pending) >= 2
    /\ toasts = <<>>


\* C12: when the call that settles last, nothing else being in flight after it, was
\* confirmed by the remote, its effect is in the collection: every task of the id of
\* a confirmed move is in the move's target stage, every task of the id of a
\* confirmed rename has the rename's title (the task still being there and no
\* logout having replaced the collection since the call).
C12_ConfirmedEffectSurvives ==
    [][(/\ Len(pending) = 1 /\ pending' = <<>>
        /\ last'.kind = "settle" /\ last'.ok
        /\ Head(pending).kept
        /\ Has(tasks', Head(pending).id))
          => /\ Head(pending).op = "move"
                  => StagesOf(tasks', Head(pending).id) = {Head(pending).to}
             /\ Head(pending).op = "update"
                  => TitlesOf(tasks', Head(pending).id) = {Head(pending).updates}]_vars


\* C13: a move of an id called while an earlier move of the same id is in flight,
\* nothing else having run since that earlier call, takes as its snapshot the stage
\* the earlier move put the task in, not the stage of before it.  (The witness is
\* the state the claim says is reachable: both moves failed and settled, and the
\* task is not in the stage it had before the first of them.)
C13_SecondMoveSnapshotsOptimisticStage ==
    [][\A id \in KnownIds : \A c \in COLUMNS :
          (/\ Len(pending) = 1
           /\ Head(pending).op = "move" /\ Head(pending).id = id /\ Head(pending).alone
           /\ moveTask(id, c))
             => pending'[Len(pending')].from = Head(pending).to]_vars

C13_Witness ==
    /\ JustSettled("move", FALSE) /\ ~last.quiet /\ last.kept
    /\ pending = <<>> /\ calls = 2 /\ issued = 2
    /\ Len(toasts) = 2
    /\ \A i \in 1..2 : toasts[i].kind = "error" /\ toasts[i].op = "move"
    /\ Has(tasks, last.id)
    /\ StagesOf(tasks, last.id) = StagesOf(last.issuePre, last.id)
    /\ StagesOf(tasks, last.id) # StagesOf(initialTasks, last.id)


\* what the continuation of call p makes of a collection ts when the remote replies
\* at time `at` (r: the random suffix of the id, for a create)
Continued(ts, p, fail, at, r) ==
    CASE p.op = "add" -> IF fail THEN rollbackAdd(ts, p) ELSE replaceTemp(ts, p, at, r)
      [] p.op = "move" -> IF fail THEN rollbackMove(ts, p) ELSE ts
      [] p.op = "delete" -> IF fail THEN rollbackDelete(ts, p) ELSE ts
      [] p.op = "update" -> IF fail THEN rollbackUpdate(ts, p) ELSE ts

\* C14: when the two calls that settle next are mutations of different ids, the
\* collection after both continuations is the same whichever of the two runs first,
\* for every combination of success and failure (the remote's replies being the same
\* in both orders).
C14_DifferentIdsCommute ==
    (Len(pending) >= 2 /\ pending[1].id # pending[2].id)
       => LET p == pending[1]
              q == pending[2]
              at == IF now < q.due THEN q.due ELSE now
          IN  \A f, g \in BOOLEAN : \A r, s \in RandomSuffixes :
                 Continued(Continued(tasks, p, f, at, r), q, g, at, s)
                    = Continued(Continued(tasks, q, g, at, s), p, f, at, r)


\* C15: a create whose remote call failed, nothing else having run between the call
\* and the failure, leaves exactly the collection of before the call: the provisional
\* task is gone and nothing else has changed.
C15_FailedCreateRestoresCollection ==
    (JustSettled("add", FALSE) /\ last.alone) => tasks = last.issuePre

C15_Witness ==
    /\ JustSettled("add", FALSE) /\ last.alone
    /\ tasks = last.issuePre
    /\ Len(tasks) > Len(initialTasks)


\* C16: at the successful settlement of a create the collection keeps its length,
\* the task at the index of the provisional task now carries the id the remote
\* returned, and no other task changes index or fields: at most one index changes.
C16_CanonicalTakesProvisionalIndex ==
    [][(/\ pending # <<>> /\ Head(pending).op = "add"
        /\ Len(pending') < Len(pending) /\ last'.ok)
          => /\ Len(tasks') = Len(tasks)
             /\ \A i \in 1..Len(tasks) :
                   IF tasks[i].id = Head(pending).id
                   THEN tasks'[i].id = last'.sid
                   ELSE tasks'[i] = tasks[i]
             /\ Cardinality({i \in 1..Len(tasks) : tasks'[i] # tasks[i]}) <= 1]_vars


\* C17: at the successful settlement of a create the task that takes the place of
\* the provisional task is in the stage the provisional task was in right before,
\* also when the provisional task was moved while the create was in flight.
C17_CreateSuccessKeepsStage ==
    [][(/\ pending # <<>> /\ Head(pending).op = "add"
        /\ Len(pending') < Len(pending) /\ last'.ok)
          => \A i \in 1..Len(tasks) :
                tasks[i].id = Head(pending).id
                   => (i <= Len(tasks') /\ tasks'[i].column = tasks[i].column)]_vars


\* the tasks of ts that have the id
ItemsOf(ts, id) == {ts[i] : i \in {j \in 1..Len(ts) : ts[j].id = id}}

\* C18: a rename whose remote call failed, no other mutation of the same id having
\* been in flight meanwhile and no logout having replaced the collection, leaves
\* every task of that id as it was right before the rename was called: the title of
\* before, every other field unchanged.
C18_FailedRenameRestoresItem ==
    (JustSettled("update", FALSE) /\ last.quiet /\ last.kept)
        => ItemsOf(tasks, last.id) = ItemsOf(last.issuePre, last.id)


\* C19: login with an identity that is not empty makes the session present with
\* that identity, leaves the collection as it was, issues no remote call and emits
\* no notification.
C19_LoginSetsSession ==
    [][\A u \in NameInputs \cup {<<"u", " ">>} :
          (u # <<>> /\ login(u))
             => /\ user' # null /\ user'.username = u
                /\ tasks' = tasks
                /\ issued' = issued /\ Len(pending') = Len(pending)
                /\ toasts' = toasts]_vars

C19_Witness ==
    /\ last.kind = "call" /\ last.op = "login"
    /\ user # null /\ user.username = <<"u">>
    /\ tasks # initialTasks
    /\ pending # <<>>


\* C20: login with an identity that is empty once trimmed is rejected, so in every
\* reachable state the session is absent or its identity is not empty once trimmed.
C20_SessionIdentityNotEmpty ==
    user = null \/ trim(user.username) # <<>>


\* the indices of the tasks of the collection that are in the column
InColumnAt(column) == {i \in 1..Len(tasks) : tasks[i].column = column}

\* C21: getTasksByColumn returns exactly the tasks of the collection whose column is
\* the argument, each once, in the order they have in the collection; right after a
\* move is called, with its remote call in flight, the moved task is in what
\* getTasksByColumn returns for the target column and for no other column.
C21_ListByStage ==
    /\ [](\A c \in COLUMNS :
            /\ Len(getTasksByColumn(c)) = Cardinality(InColumnAt(c))
            /\ \A i \in InColumnAt(c) :
                  getTasksByColumn(c)[Cardinality({j \in InColumnAt(c) : j <= i})]
                     = tasks[i])
    /\ [][\A id \in KnownIds : \A c \in COLUMNS :
             (Has(tasks, id) /\ moveTask(id, c))
                => /\ \E k \in 1..Len(getTasksByColumn(c)') :
                         getTasksByColumn(c)'[k].id = id
                   /\ \A d \in COLUMNS \ {c} :
                         \A k \in 1..Len(getTasksByColumn(d)') :
                            getTasksByColumn(d)'[k].id # id]_vars

C21_Witness ==
    /\ last.kind = "call" /\ last.op = "move" /\ last.ok
    /\ pending # <<>>
    /\ \E c \in COLUMNS :
          /\ Len(getTasksByColumn(c)) >= 2
          /\ getTasksByColumn(c)[1].createdAt > getTasksByColumn(c)[2].createdAt


\* the remote call number n is in flight
InFlight(n) == \E i \in 1..Len(pending) : pending[i].n = n

\* C22: every remote call that was issued is either in flight or has settled once,
\* with one outcome, success or failure; a call leaves flight only by its own
\* settlement (nothing cancels it); and every call in flight eventually settles.
C22_SettlesExactlyOnce ==
    /\ [](/\ issued = Len(pending) + Len(toasts)
          /\ \A i, j \in 1..Len(pending) : pending[i].n = pending[j].n => i = j
          /\ \A i \in 1..Len(toasts) : toasts[i].kind \in {"success", "error"})
    /\ [][Len(pending') < Len(pending)
             => /\ last'.kind = "settle" /\ last'.n = Head(pending).n
                /\ Len(pending') = Len(pending) - 1
                /\ Len(toasts') = Len(toasts) + 1
                /\ toasts'[Len(toasts')].kind = IF last'.ok THEN "success" ELSE "error"
                /\ \A i \in 1..Len(pending') : pending'[i].n = pending[i + 1].n]_vars
    /\ \A n \in 1..(MaxCalls + 2) : [](InFlight(n) => <>(issued >= n /\ ~InFlight(n)))

C22_Witness ==
    /\ pending = <<>> /\ issued = 2 /\ user = null
    /\ \E i, j \in 1..Len(toasts) : toasts[i].kind = "success" /\ toasts[j].kind = "error"
    /\ last.kind = "call" /\ last.op = "logout"


\* the texts of the notifications of an error that carries no message
FallbackTexts ==
    {"Failed to add task", "Failed to move task", "Failed to delete task",
     "Failed to update task"}

\* C23: when the remote call of a create, a move, a remove or a rename comes back
\* with an error that is not the simulated one, the collection after the settlement
\* is the one the rollback of a simulated failure gives from the same state.
C23_UnexpectedErrorRollsBack ==
    [][\A r \in RandomSuffixes :
          (pending # <<>> /\ Settle(UnexpectedError, r))
             => tasks' = Continued(tasks, Head(pending), TRUE, now', r)]_vars

C23_Witness ==
    /\ last.kind = "settle" /\ ~last.ok /\ last.op = "delete"
    /\ toasts[Len(toasts)].text \in FallbackTexts
    /\ Has(tasks, last.id)


\* C24: when the remote call comes back with an error that is not the simulated
\* one, what the caller gets is of another kind than for a simulated failure, which
\* is an error notification and a call that returns: either the call ends with the
\* error or the notification is not of the error kind.
C24_UnexpectedErrorIsDistinctKind ==
    [][\A r \in RandomSuffixes :
          (pending # <<>> /\ Settle(UnexpectedError, r))
             => \/ last'.thrown # NoError.name
                \/ toasts'[Len(toasts')].kind # "error"]_vars


\* C25: whatever error the remote call comes back with, simulated or not, the store
\* call returns to its caller without an error, the collection is rolled back and
\* exactly one notification, of the error kind, is added; a call never ends with an
\* error.
C25_FailureIsCaughtInStore ==
    /\ [](last.thrown = NoError.name)
    /\ [][\A e \in AllOutcomes \ {NoError} : \A r \in RandomSuffixes :
             (pending # <<>> /\ Settle(e, r))
                => /\ last'.thrown = NoError.name
                   /\ tasks' = Continued(tasks, Head(pending), TRUE, now', r)
                   /\ Len(toasts') = Len(toasts) + 1
                   /\ SubSeq(toasts', 1, Len(toasts)) = toasts
                   /\ toasts'[Len(toasts')].kind = "error"]_vars

C25_Witness ==
    /\ last.kind = "settle" /\ ~last.ok /\ last.op = "update"
    /\ last.thrown = NoError.name
    /\ toasts[Len(toasts)].text = simulatedFailure("update").message
    /\ Len(toasts) = 2 /\ toasts[1].text \in FallbackTexts


\* C26: the task a successful remote create returns has an id that is neither the
\* provisional id it was given nor the id of any task of the collection at that
\* moment, and the title, the column and the createdAt of the task it was given.
C26_ServerTaskHasFreshId ==
    [][\A r \in RandomSuffixes :
          (pending # <<>> /\ Head(pending).op = "add" /\ Settle(NoError, r))
             => LET p == Head(pending)
                    serverTask == serverTaskOf(p, now', r)
                IN  /\ serverTask.id # p.id
                    /\ serverTask.id \notin Ids(tasks)
                    /\ serverTask.title = p.task.title
                    /\ serverTask.column = p.task.column
                    /\ serverTask.createdAt = p.task.createdAt]_vars


\* C27: in every reachable state every task of the collection has a title that is
\* not empty.
C27_TitlesNotEmpty ==
    \A i \in 1..Len(tasks) : tasks[i].title # <<>>


\* ascending createdAt, equal values allowed
Ascending(ts) == \A i \in 1..(Len(ts) - 1) : ts[i].createdAt <= ts[i + 1].createdAt

\* C28: right after the rollback of a failed remove the whole collection is in
\* ascending order of createdAt.
C28_RemoveRollbackSortsAll ==
    JustSettled("delete", FALSE) => Ascending(tasks)

C28_Witness ==
    /\ JustSettled("delete", FALSE)
    /\ ~Ascending(last.issuePre)
    /\ Len(tasks) > Len(initialTasks)
    /\ Ascending(tasks)


\* C29: the settlement of a move, a remove or a rename that the remote confirmed
\* leaves the collection as it was right before the settlement.
C29_SuccessChangesNothing ==
    [][\A r \in RandomSuffixes :
          (/\ pending # <<>> /\ Head(pending).op \in {"move", "delete", "update"}
           /\ Settle(NoError, r))
             => tasks' = tasks]_vars

C29_Witness ==
    /\ last.kind = "settle" /\ last.ok /\ last.op \in {"move", "delete", "update"}
    /\ ~last.kept
    /\ tasks # initialTasks


\* C30: moveTask called with the column the task is already in leaves the collection
\* as it was at the call, and the settlement of that move, success or failure,
\* leaves the collection as it was right before the settlement.
C30_MoveToSameStageIsNoOp ==
    [][/\ \A id \in KnownIds : \A c \in COLUMNS :
             (Has(tasks, id) /\ find(tasks, id).column = c /\ moveTask(id, c))
                => tasks' = tasks
       /\ \A e \in AllOutcomes : \A r \in RandomSuffixes :
             (/\ pending # <<>> /\ Head(pending).op = "move"
              /\ Head(pending).from = Head(pending).to
              /\ Settle(e, r))
                => tasks' = tasks]_vars


\* C31: createdAt of a task never changes.  In a step that keeps the length of the
\* collection (a move, a rename, their settlements, the replacement of a provisional
\* task) the task at each index keeps its createdAt; the task that the rollback of a
\* failed remove puts back has the createdAt it had when it was removed.
C31_CreatedAtNeverChanges ==
    [][/\ (Len(tasks') = Len(tasks) /\ ~(last'.kind = "call" /\ last'.op = "logout"))
             => \A i \in 1..Len(tasks) : tasks'[i].createdAt = tasks[i].createdAt
       /\ (/\ pending # <<>> /\ Head(pending).op = "delete"
           /\ Len(pending') < Len(pending) /\ ~last'.ok)
             => \E j \in 1..Len(tasks') :
                   /\ tasks'[j].id = Head(pending).id
                   /\ tasks'[j].createdAt
                         = find(Head(pending).pre, Head(pending).id).createdAt]_vars


\* C32: in every reachable state the column of every task is one of the three of
\* COLUMNS (every moveTask call is given one of them), and what getTasksByColumn
\* returns for the three columns partitions the collection: every task is in the
\* result for exactly one column, and the three results together are as long as the
\* collection.
C32_StagesPartitionCollection ==
    /\ \A i \in 1..Len(tasks) : tasks[i].column \in COLUMNS
    /\ \A i \in 1..Len(tasks) :
          Cardinality({c \in COLUMNS :
                          \E k \in 1..Len(getTasksByColumn(c)) :
                             getTasksByColumn(c)[k] = tasks[i]}) = 1
    /\ Len(getTasksByColumn(TODO)) + Len(getTasksByColumn(IN_PROGRESS))
          + Len(getTasksByColumn(DONE)) = Len(tasks)

\* a create has been confirmed and a seeded task has been moved to another column
C32_Witness ==
    /\ \E i \in 1..Len(tasks) : tasks[i].id[1] = "srv"
    /\ \E i \in 1..Len(tasks) : tasks[i].id = LitId(1) /\ tasks[i].column # TODO
    /\ \A c \in COLUMNS : getTasksByColumn(c) # <<>>


\* C33: after logout the collection stays the seeded one until the next mutation is
\* called: while every call in flight was made before the last logout (settlements
\* are in call order, so no mutation has been called since), a settlement, success
\* or failure, leaves the collection equal to initialTasks.
C33_SettlementsKeepResetCollection ==
    [][(/\ pending # <<>>
        /\ \A i \in 1..Len(pending) : ~pending[i].kept
        /\ tasks = initialTasks
        /\ Len(pending') < Len(pending))
          => tasks' = initialTasks]_vars


\* C34: whenever no remote call is in flight, no task of the collection has a
\* provisional id.
C34_NoProvisionalIdAtRest ==
    pending = <<>> => \A i \in 1..Len(tasks) : tasks[i].id[1] # "temp"


\* C37: when a create shows its success notification, the collection at that moment
\* has a task with the id that the remote returned for that create.
C37_SuccessToastMeansTaskPresent ==
    (/\ JustSettled("add", TRUE)
     /\ toasts # <<>>
     /\ toasts[Len(toasts)].kind = "success" /\ toasts[Len(toasts)].op = "add")
       => Has(tasks, last.sid)


\* the step leaves the length of the collection, the id at every index and every
\* task whose id is not id as they are
Frame(id) ==
    /\ Len(tasks') = Len(tasks)
    /\ \A i \in 1..Len(tasks) :
          /\ tasks'[i].id = tasks[i].id
          /\ tasks[i].id # id => tasks'[i] = tasks[i]

\* C36: moveTask and updateTaskTitle on an id, when they apply their change and when
\* their remote call settles either way, leave every task of another id, the order
\* of the collection and the ids in it unchanged; so the rollback of a failed move or
\* rename does not put back a task that was removed while the call was in flight.
C36_MoveAndRenameFrame ==
    [][/\ (/\ Len(pending') > Len(pending)
           /\ pending'[Len(pending')].op \in {"move", "update"})
             => Frame(pending'[Len(pending')].id)
       /\ (/\ Len(pending') < Len(pending)
           /\ Head(pending).op \in {"move", "update"})
             => Frame(Head(pending).id)]_vars

\* a move has failed while the collection has no task of its id: the task was
\* removed while the move was in flight
C36_Witness ==
    /\ JustSettled("move", FALSE)
    /\ ~Has(tasks, last.id)
    /\ Has(last.issuePre, last.id)


\* C35: when every remote call has settled, no call having overlapped another call
\* of its id or a logout, the tasks of the collection, as a set, are the tasks that
\* the mutations whose remote call returned make of the seeded tasks, applied in the
\* order of the calls (provisional ids having given way to the ids of the server).
C35_CollectionIsConfirmedMutations ==
    (pending = <<>> /\ disciplined) => {tasks[i] : i \in 1..Len(tasks)} = applied

====
